---- MODULE Spec2Model ----
(***************************************************************************)
(* A model of bevy_ase's asynchronous Aseprite import pipeline:            *)
(*   - the AssetServer / AseAssetLoader that byte-loads and decodes files, *)
(*   - loader::Loader (add, is_loaded, spawn_tasks, take_finished,         *)
(*     move_finished_into_resources) driven by the ase_importer system,    *)
(*   - the detached background tasks that run processing::ResourceData     *)
(*     extraction and push their result into the mutex-guarded outbox,     *)
(*   - processing::move_into_resources, which fills the asset stores and   *)
(*     the AseFileMap index on the main context.                           *)
(*                                                                         *)
(* The main context is one sequential process (variable pc); every         *)
(* background task is a process of its own (field st of its entry in       *)
(* tasks).  The steps of the main context are cut at the points where it   *)
(* synchronises with the workers (try_lock, the release of the guard).     *)
(*                                                                         *)
(* Besides the pipeline the module models the sprite_animator system of    *)
(* animate.rs, which plays an Animation on one entity along the GameTimer. *)
(***************************************************************************)
EXTENDS Integers, Sequences, FiniteSets, TLC

\* ---------------------------------------------------------------- bounds
MaxAdds  == 3        \* calls of Loader::add in one behaviour
MaxFrames == 2       \* frames of a file handed to ResourceData::new
MaxItems == 2        \* tags + tilesets + slices declared by such a file
MaxDuration == 2     \* duration_ms of a frame of a played Animation
MaxTime == 5         \* GameTime up to which the GameTimer is followed

\* The AtomicU32 in_progress wraps modulo 2^32.  Its value is held as the
\* residue in -2^31 .. 2^31-1 (the value 2^32 - k is held as -k), which
\* keeps the wrap-around and the comparison with 0 exact.
ResidueMax == 2147483647

VARIABLES
    load_state,     \* AssetServer: load state of every handle
    aseprites,      \* Assets<AseAsset>: the data field of every asset
    todo_handles,   \* Loader.todo_handles
    in_progress,    \* Loader.in_progress
    done,           \* Loader.done, the outbox (contents of the Mutex)
    lock,           \* who holds the mutex of done: "free", "main", "worker"
    tasks,          \* the background tasks spawned so far, in dispatch order:
                    \*   files: the ase_files moved into the task,
                    \*   st: where the task stands,
                    \*   handles (history): the handles taken from todo_handles,
                    \*   materialized (history): times its result was drained
                    \*   order (history): the paths of its result in the order
                    \*     the drain moved them into the stores
    pc,             \* position of the main context inside ase_importer
    finished,       \* local of move_finished_into_resources: batches taken
    resources,      \* AseAssetResources: the stores and the AseFileMap
    adds,           \* history: number of Loader::add calls so far
    submitted,      \* history: handles passed to Loader::add so far
    ase_file,       \* the AsepriteFile a caller hands to ResourceData::new
    resource_data,  \* the ResourceData it returned (None before)
    step,           \* where that call chain stands: "read", "extracted",
                    \* "panicked", "moved", "move_panicked"; "none" when the
                    \* Loader runs
    optional_stores, \* the Option members of AseAssetResources that are Some
    animation,      \* Assets<Animation>::get(&play.animation): None, or the
                    \* frames of the Animation the entity plays
    play,           \* the entity's PlayAnimation component
    sprite_index,   \* the entity's TextureAtlasSprite.index
    time,           \* GameTimer.time
    local_frame,    \* sprite_animator's local frame
    local_init,     \* sprite_animator's local init
    apc,            \* where the frame stands: "timer" (game_timer is next),
                    \* "start" (sprite_animator is next), "loop" (inside its
                    \* while loop); "none" when no entity is animated
    called          \* history: the last call of frame_after, None or
                    \* Some([frame, result, odd]); odd tells whether an odd
                    \* number of calls was made so far

\* the state of the Loader pipeline / of one ResourceData call chain
loader_vars == <<load_state, aseprites, todo_handles, in_progress, done, lock,
                 tasks, pc, finished, adds, submitted>>
file_vars == <<ase_file, resource_data, step, optional_stores>>
anim_vars == <<animation, play, sprite_index, time, local_frame, local_init,
               apc, called>>

vars == <<load_state, aseprites, todo_handles, in_progress, done, lock,
          tasks, pc, finished, resources, adds, submitted,
          ase_file, resource_data, step, optional_stores,
          animation, play, sprite_index, time, local_frame, local_init,
          apc, called>>

\* ------------------------------------------------------------ small helpers
\* Option<T> is a sequence of length 0 (None) or 1 (Some)
None == <<>>
Some(x) == <<x>>

\* the sequence a, a+1, ..., b-1 (a Rust range a..b; empty when a >= b)
RangeSeq(a, b) == [i \in 1..(b - a) |-> a + i - 1]

\* HashMap::insert / Assets::set
Put(m, k, v) == [x \in DOMAIN m \cup {k} |-> IF x = k THEN v ELSE m[x]]

EmptyMap == <<>>

\* the element of a singleton set.  An intermediate value v is passed on
\* as {f(x) : x \in {v}}, which evaluates v once however often f uses x.
The(S) == CHOOSE x \in S : TRUE

\* ------------------------------------------------------- the files on disk
\* What AsepriteFile::read yields for the bytes of each file the application
\* can load, one file per way the pipeline can go: file 1 (A) and file 3 (C)
\* decode, file 2 (B) does not decode, file 4 (D) decodes but declares a
\* tileset that has no pixel data.
Disk ==
    << [ok |-> TRUE,
        frames |-> << [image |-> "A0", duration |-> 100],
                      [image |-> "A1", duration |-> 50] >>,
        tags |-> << [name |-> "Idle", from_frame |-> 0, to_frame |-> 1],
                    [name |-> "Run",  from_frame |-> 1, to_frame |-> 1] >>,
        tilesets |-> << [id |-> 0, name |-> "ground", tile_count |-> 4,
                         pixels |-> Some("A-tiles")] >>,
        slices |-> << [name |-> "hit", keys |-> "hit-keys"] >>],
       [ok |-> FALSE, frames |-> <<>>, tags |-> <<>>, tilesets |-> <<>>,
        slices |-> <<>>],
       [ok |-> TRUE,
        frames |-> << [image |-> "C0", duration |-> 80] >>,
        tags |-> << [name |-> "Idle", from_frame |-> 0, to_frame |-> 0] >>,
        tilesets |-> << [id |-> 0, name |-> "walls", tile_count |-> 2,
                         pixels |-> Some("C-tiles")] >>,
        slices |-> <<>>],
       [ok |-> TRUE,
        frames |-> << [image |-> "D0", duration |-> 10] >>,
        tags |-> <<>>,
        tilesets |-> << [id |-> 0, name |-> "broken", tile_count |-> 1,
                         pixels |-> None] >>,
        slices |-> <<>>] >>

\* the handles the application can get from the asset server
Files == DOMAIN Disk

\* AsepriteFile::read on the bytes of file f
AsepriteFile(f) == Disk[f]

\* ---- the files a caller can hand to ResourceData::new
\* (tests.rs: load_test_file_as_assets reads a file and calls the extraction
\* on it).  Such a file has 1..MaxFrames frames and declares at most MaxItems
\* tags, tilesets and slices; a tag names two frames of the file as from_frame
\* and to_frame, a tileset has pixel data or not, names may repeat.
TagNames == {"Idle", "Run"}
SliceNames == {"hit", "hurt"}

FramesOf(n) ==
    [i \in 1..n |-> [image |-> "F" \o ToString(i - 1), duration |-> 10 * i]]

TagsOf(n) == [name : TagNames, from_frame : 0..(n - 1), to_frame : 0..(n - 1)]

TilesetsOf(has_pixels) ==
    [i \in DOMAIN has_pixels |->
        [id |-> i - 1, name |-> "tiles", tile_count |-> i,
         pixels |-> IF has_pixels[i] THEN Some("T" \o ToString(i - 1)) ELSE None]]

SlicesOf(names) ==
    [i \in DOMAIN names |-> [name |-> names[i], keys |-> "K" \o ToString(i - 1)]]

Document(n, tags, has_pixels, names) ==
    [ok |-> TRUE, frames |-> FramesOf(n), tags |-> tags,
     tilesets |-> TilesetsOf(has_pixels), slices |-> SlicesOf(names)]

\* the path such a file is extracted and materialized under
FilePath == "file.aseprite"

\* AseAsset.name: the path of handle h
PathOf(h) == ToString(h) \o ".aseprite"

\* ------------------------------------------------------------ handle ids
\* handle_id::make: the AssetPath of a file path and a label kind ++ suffix
make(path, kind, suffix) ==
    <<path, IF suffix = None THEN kind ELSE kind \o suffix[1]>>

animation_id(path, tag_name)   == make(path, "Animation/", Some(tag_name))
\* (mutant) a frame image id that leaves the frame index out
frame_image_id_shared(path, frame) == make(path, "FrameImage", None)

frame_image_id(path, frame)    == make(path, "FrameImage", Some(ToString(frame)))
atlas_id(path)                 == make(path, "Atlas", None)
tileset_id(path, id)           == make(path, "Tileset", Some(ToString(id)))
tileset_image_id(path, id)     == make(path, "TilesetImage", Some(ToString(id)))
slice_id(path, name)           == make(path, "Slice/", Some(name))

\* ------------------------------------------------------------- extraction
\* SpriteData::<Image>::new(file, frame)
SpriteDataNew(file, frame) ==
    [frame    |-> frame,
     texture  |-> file.frames[frame + 1].image,
     duration |-> file.frames[frame + 1].duration]

\* (mutant) the whole-file animation built from the range 1..num_frames
AnimationDataNewFromOne(file, sprite_offset) ==
    [tag_name |-> None,
     sprites  |-> [i \in 1..(Len(file.frames) - 1) |-> sprite_offset + i]]

\* AnimationData::new(file, sprite_offset): the whole-file animation
AnimationDataNew(file, sprite_offset) ==
    [tag_name |-> None,
     sprites  |-> [i \in 1..Len(file.frames) |-> sprite_offset + (i - 1)]]

\* (mutant) from_tag over the half-open range from_frame..to_frame
AnimationDataFromTagExclusive(sprite_offset, tag) ==
    [tag_name |-> Some(tag.name),
     sprites  |-> [i \in DOMAIN RangeSeq(tag.from_frame, tag.to_frame) |->
                     sprite_offset + RangeSeq(tag.from_frame, tag.to_frame)[i]]]

\* AnimationData::from_tag(sprite_offset, tag): from_frame..to_frame + 1
AnimationDataFromTag(sprite_offset, tag) ==
    [tag_name |-> Some(tag.name),
     sprites  |-> [i \in DOMAIN RangeSeq(tag.from_frame, tag.to_frame + 1) |->
                     sprite_offset + RangeSeq(tag.from_frame, tag.to_frame + 1)[i]]]

\* tileset::texture_from: Err(NoPixels) for a tileset without pixel data
texture_from(ase_tileset) ==
    IF ase_tileset.pixels = None
    THEN [ok |-> FALSE, val |-> "NoPixels"]
    ELSE [ok |-> TRUE,  val |-> ase_tileset.pixels[1]]

\* (mutant) tilesets_from that skips the tilesets without pixel data
tilesets_from_skipping(file) ==
    LET HasTexture(t) == texture_from(t).ok
        kept == SelectSeq(file.tilesets, HasTexture)
    IN  [ok |-> TRUE,
         val |-> [i \in DOMAIN kept |->
                    [id         |-> kept[i].id,
                     name       |-> kept[i].name,
                     tile_count |-> kept[i].tile_count,
                     texture    |-> texture_from(kept[i]).val]]]

\* processing::tilesets_from: collect() of the per-tileset Results
tilesets_from(file) ==
    IF \E i \in DOMAIN file.tilesets : ~texture_from(file.tilesets[i]).ok
    THEN [ok |-> FALSE, val |-> <<>>]
    ELSE [ok |-> TRUE,
          val |-> [i \in DOMAIN file.tilesets |->
                     [id         |-> file.tilesets[i].id,
                      name       |-> file.tilesets[i].name,
                      tile_count |-> file.tilesets[i].tile_count,
                      texture    |-> texture_from(file.tilesets[i]).val]]]

\* Slice::from_ase: the name and the keys of the declared slice
from_ase(ase_slice) == [name |-> ase_slice.name, keys |-> ase_slice.keys]

\* ResourceData::new panics on the expect() around tilesets_from
ResourceDataNewPanics(file) == ~tilesets_from(file).ok

\* ResourceData::new(path, file)
ResourceDataNew(file) ==
    [sprites  |-> [i \in 1..Len(file.frames) |-> SpriteDataNew(file, i - 1)],
     anims    |-> <<AnimationDataNew(file, 0)>> \o
                  [k \in DOMAIN file.tags |-> AnimationDataFromTag(0, file.tags[k])],
     tilesets |-> tilesets_from(file).val,
     slices   |-> [i \in DOMAIN file.slices |-> from_ase(file.slices[i])]]

\* ResourceDataByFile::new(ases): a HashMap from path to ResourceData.
\* ases is the Vec<(PathBuf, AsepriteFile)> of the task, given as handles.
ResourceDataByFileNewPanics(ases) ==
    \E i \in DOMAIN ases : ResourceDataNewPanics(AsepriteFile(ases[i]))

ResourceDataByFileNew(ases) ==
    [p \in {PathOf(ases[i]) : i \in DOMAIN ases} |->
        ResourceDataNew(AsepriteFile(CHOOSE h \in {ases[i] : i \in DOMAIN ases} :
                                         PathOf(h) = p))]

\* ---------------------------------------------------------- materialization
\* Handle::default(), the atlas field of a fresh AseAssetMap
DefaultHandle == <<"", "default">>

\* AseAssetMap::default()
AseAssetMapDefault ==
    [animations |-> EmptyMap, slices |-> EmptyMap, tilesets |-> EmptyMap,
     textures |-> EmptyMap, atlas |-> DefaultHandle]

\* AseFileMap::get_mut(path): entry(path).or_default()
get_mut(index, path) ==
    IF path \in DOMAIN index THEN index[path] ELSE AseAssetMapDefault

\* The state threaded through the move_* functions: the stores (res) and the
\* &mut AseAssetMap of the file (fa).

\* (mutant) move_slices registers the handle without storing the slice
RECURSIVE move_slices_index_only(_, _, _)
move_slices_index_only(path, slice_vec, st) ==
    IF slice_vec = <<>> THEN st
    ELSE LET s      == Head(slice_vec)
             handle == slice_id(path, s.name)
         IN  move_slices_index_only(path, Tail(slice_vec),
                 [st EXCEPT !.fa.slices  = Put(@, s.name, handle)])

\* processing::move_slices
RECURSIVE move_slices(_, _, _)
move_slices(path, slice_vec, st) ==
    IF slice_vec = <<>> THEN st
    ELSE LET s      == Head(slice_vec)
             handle == slice_id(path, s.name)
         IN  move_slices(path, Tail(slice_vec),
                 [st EXCEPT !.res.slices = Put(@, handle, s),
                            !.fa.slices  = Put(@, s.name, handle)])

\* processing::move_tilesets
RECURSIVE move_tilesets(_, _, _)
move_tilesets(path, tileset_data, st) ==
    IF tileset_data = <<>> THEN st
    ELSE LET ts         == Head(tileset_data)
             tex_handle == tileset_image_id(path, ts.id)
             tileset    == [id |-> ts.id, name |-> ts.name, texture |-> tex_handle,
                            tile_count |-> ts.tile_count]
             handle     == tileset_id(path, ts.id)
         IN  move_tilesets(path, Tail(tileset_data),
                 [st EXCEPT !.res.textures = Put(@, tex_handle, ts.texture),
                            !.res.tilesets = Put(@, handle, tileset),
                            !.fa.tilesets  = Put(@, ts.id, handle)])

\* the closure of move_sprites: Assets::set of every frame image and
\* insert_texture of its handle
RECURSIVE set_sprite_images(_, _, _)
set_sprite_images(path, sprites, st) ==
    IF sprites = <<>> THEN st
    ELSE LET sp           == Head(sprites)
             image_handle == frame_image_id(path, sp.frame)
         IN  set_sprite_images(path, Tail(sprites),
                 [st EXCEPT !.res.textures = Put(@, image_handle, sp.texture),
                            !.fa.textures  = Put(@, sp.frame, image_handle)])

\* HandleId::random() of the atlas texture that TextureAtlasBuilder::finish
\* adds to the image store: an id no entry of the store has yet
fresh_image_id(textures, path) ==
    <<path, "#" \o ToString(Cardinality({id \in DOMAIN textures : id[1] = path}))>>

\* TextureAtlasBuilder::finish: the atlas texture and the slot of every
\* frame image; placement (position in the builder -> slot) is the packer's
\* choice
finish_atlas(path, sprites, textures, placement) ==
    [texture         |-> fresh_image_id(textures, path),
     texture_handles |->
        [h \in {frame_image_id(path, sprites[i].frame) : i \in DOMAIN sprites} |->
            placement[CHOOSE i \in DOMAIN sprites :
                          frame_image_id(path, sprites[i].frame) = h]]]

\* processing::move_sprites; the result carries sprite_handles and the
\* atlas handle for move_animations
move_sprites(path, sprites, st, placement) ==
    The({ [st |-> [x.st1 EXCEPT !.res.textures = Put(@, x.atlas.texture,
                                                     "atlas:" \o path),
                                !.res.atlases  = Put(@, atlas_id(path), x.atlas),
                                !.fa.atlas     = atlas_id(path)],
           sprite_handles |->
               [i \in DOMAIN sprites |->
                   [frame    |-> sprites[i].frame,
                    texture  |-> frame_image_id(path, sprites[i].frame),
                    duration |-> sprites[i].duration]],
           atlas_handle |-> atlas_id(path)] :
          x \in {[st1 |-> st1,
                  atlas |-> finish_atlas(path, sprites, st1.res.textures, placement)] :
                    st1 \in {set_sprite_images(path, sprites, st)}} })

\* (mutant) move_animations that takes the sprite id for the atlas index
RECURSIVE move_animations_by_sprite_id(_, _, _, _, _, _)
move_animations_by_sprite_id(path, animation_data, sprite_data, atlas, atlas_handle, st) ==
    IF animation_data = <<>> THEN st
    ELSE LET anim_data == Head(animation_data)
             rest      == Tail(animation_data)
         IN  IF anim_data.tag_name = None
             THEN move_animations_by_sprite_id(path, rest, sprite_data, atlas,
                                               atlas_handle, st)
             ELSE LET tag_name == anim_data.tag_name[1]
                      frames ==
                        [k \in DOMAIN anim_data.sprites |->
                           LET tmp_sprite == sprite_data[anim_data.sprites[k] + 1]
                           IN  [atlas_index |-> anim_data.sprites[k],
                                duration_ms |-> tmp_sprite.duration]]
                      handle == animation_id(path, tag_name)
                      asset  == [frames |-> frames, atlas |-> atlas_handle]
                  IN  move_animations_by_sprite_id(path, rest, sprite_data, atlas,
                         atlas_handle,
                         [st EXCEPT !.res.animations = Put(@, handle, asset),
                                    !.fa.animations  = Put(@, tag_name, handle)])

\* (mutant) move_animations that keeps the Animation already set for a name
RECURSIVE move_animations_keep_first(_, _, _, _, _, _)
move_animations_keep_first(path, animation_data, sprite_data, atlas, atlas_handle, st) ==
    IF animation_data = <<>> THEN st
    ELSE LET anim_data == Head(animation_data)
             rest      == Tail(animation_data)
         IN  IF anim_data.tag_name = None
                \/ anim_data.tag_name[1] \in DOMAIN st.fa.animations
             THEN move_animations_keep_first(path, rest, sprite_data, atlas,
                                             atlas_handle, st)
             ELSE LET tag_name == anim_data.tag_name[1]
                      frames ==
                        [k \in DOMAIN anim_data.sprites |->
                           LET tmp_sprite == sprite_data[anim_data.sprites[k] + 1]
                           IN  [atlas_index |-> atlas.texture_handles[tmp_sprite.texture],
                                duration_ms |-> tmp_sprite.duration]]
                      handle == animation_id(path, tag_name)
                      asset  == [frames |-> frames, atlas |-> atlas_handle]
                  IN  move_animations_keep_first(path, rest, sprite_data, atlas,
                         atlas_handle,
                         [st EXCEPT !.res.animations = Put(@, handle, asset),
                                    !.fa.animations  = Put(@, tag_name, handle)])

\* (mutant) move_animations that also stores the whole-file animation, under
\* the empty name
RECURSIVE move_animations_with_default(_, _, _, _, _, _)
move_animations_with_default(path, animation_data, sprite_data, atlas, atlas_handle, st) ==
    IF animation_data = <<>> THEN st
    ELSE LET anim_data == Head(animation_data)
             rest      == Tail(animation_data)
             tag_name  == IF anim_data.tag_name = None THEN ""
                          ELSE anim_data.tag_name[1]
             frames ==
               [k \in DOMAIN anim_data.sprites |->
                  LET tmp_sprite == sprite_data[anim_data.sprites[k] + 1]
                  IN  [atlas_index |-> atlas.texture_handles[tmp_sprite.texture],
                       duration_ms |-> tmp_sprite.duration]]
             handle == animation_id(path, tag_name)
             asset  == [frames |-> frames, atlas |-> atlas_handle]
         IN  move_animations_with_default(path, rest, sprite_data, atlas, atlas_handle,
                [st EXCEPT !.res.animations = Put(@, handle, asset),
                           !.fa.animations  = Put(@, tag_name, handle)])

\* processing::move_animations: only the animations with a tag name
RECURSIVE move_animations(_, _, _, _, _, _)
move_animations(path, animation_data, sprite_data, atlas, atlas_handle, st) ==
    IF animation_data = <<>> THEN st
    ELSE LET anim_data == Head(animation_data)
             rest      == Tail(animation_data)
         IN  IF anim_data.tag_name = None
             THEN move_animations(path, rest, sprite_data, atlas, atlas_handle, st)
             ELSE LET tag_name == anim_data.tag_name[1]
                      frames ==
                        [k \in DOMAIN anim_data.sprites |->
                           LET tmp_sprite == sprite_data[anim_data.sprites[k] + 1]
                           IN  [atlas_index |-> atlas.texture_handles[tmp_sprite.texture],
                                duration_ms |-> tmp_sprite.duration]]
                      handle == animation_id(path, tag_name)
                      asset  == [frames |-> frames, atlas |-> atlas_handle]
                  IN  move_animations(path, rest, sprite_data, atlas, atlas_handle,
                         [st EXCEPT !.res.animations = Put(@, handle, asset),
                                    !.fa.animations  = Put(@, tag_name, handle)])

\* the members of AseAssetResources that are an Option<ResMut<_>>
OptionalStores == {"animations", "atlases", "tilesets", "slices", "index"}

\* ResourceData::move_into_resources panics on expect("Expected a file map!")
MoveIntoResourcesPanics == "index" \notin optional_stores

\* ResourceData::move_into_resources(path, resources) when the file map is
\* there: a store that is None is skipped, and the animations are moved
\* inside the branch of the atlases
move_into_resources(data, path, res, placement) ==
    LET S0 == {[res |-> res, fa |-> get_mut(res.index, path)]}
        S1 == {IF "slices" \in optional_stores
               THEN move_slices(path, data.slices, st) ELSE st : st \in S0}
        S2 == {IF "tilesets" \in optional_stores
               THEN move_tilesets(path, data.tilesets, st) ELSE st : st \in S1}
        S3 == {move_sprites(path, data.sprites, st, placement) : st \in S2}
        S4 == IF "atlases" \in optional_stores
              THEN {IF "animations" \in optional_stores
                    THEN move_animations(path, data.anims, ms.sprite_handles,
                                         ms.st.res.atlases[ms.atlas_handle],
                                         ms.atlas_handle, ms.st)
                    ELSE ms.st : ms \in S3}
              ELSE S2
    IN  The({[st.res EXCEPT !.index = Put(@, path, st.fa)] : st \in S4})

\* ResourceDataByFile::move_into_resources: the files of the HashMap one
\* after the other, in the order the map iterates (order, a sequence of paths)
RECURSIVE by_file_move_into_resources(_, _, _, _)
by_file_move_into_resources(by_file, order, res, placements) ==
    IF order = <<>> THEN res
    ELSE The({by_file_move_into_resources(by_file, Tail(order), res1, placements) :
                res1 \in {move_into_resources(by_file[Head(order)], Head(order),
                                              res, placements[Head(order)])}})

\* the packer's possible placements of n frames: bijections onto 0..n-1
Placements(n) ==
    {pl \in [1..n -> 0..(n - 1)] : \A i, j \in 1..n : pl[i] = pl[j] => i = j}

\* one placement per file of a finished batch
BatchPlacements(by_file) ==
    {pls \in [DOMAIN by_file ->
                 UNION {Placements(Len(by_file[p].sprites)) : p \in DOMAIN by_file}] :
        \A p \in DOMAIN by_file : DOMAIN pls[p] = 1..Len(by_file[p].sprites)}

\* the iteration orders of a HashMap with key set S
Orders(S) ==
    {o \in [1..Cardinality(S) -> S] : \A i, j \in DOMAIN o : o[i] = o[j] => i = j}

\* ------------------------------------------------------------- the Loader
\* AssetServer::get_group_load_state over the pending handles: Failed as
\* soon as one handle failed, else Loading if one is still loading
get_group_load_state(handles) ==
    IF \E i \in DOMAIN handles : load_state[handles[i]] = "Failed" THEN "Failed"
    ELSE IF \E i \in DOMAIN handles : load_state[handles[i]] = "NotLoaded"
         THEN "NotLoaded"
    ELSE IF \E i \in DOMAIN handles : load_state[handles[i]] = "Loading" THEN "Loading"
    ELSE "Loaded"

\* (mutant) ready as soon as one pending handle is loaded
any_todo_handle_ready ==
    \E i \in DOMAIN todo_handles : load_state[todo_handles[i]] = "Loaded"

\* Loader::all_todo_handles_ready
all_todo_handles_ready == get_group_load_state(todo_handles) = "Loaded"

\* Loader::pending_count
pending_count == in_progress

\* (mutant) is_loaded that looks at the outbox instead of the counter
is_loaded_outbox == todo_handles = <<>> /\ done = <<>>

\* Loader::is_loaded
is_loaded == todo_handles = <<>> /\ pending_count = 0

\* AtomicU32::fetch_add(1) / fetch_sub(1): the stored value afterwards
\* (mutant) an increment that is lost
fetch_add_lost(n) == n

\* (mutant) a decrement that is lost
fetch_sub_lost(n) == n

fetch_add(n) == IF n = ResidueMax THEN (-ResidueMax) - 1 ELSE n + 1
fetch_sub(n) == IF n = (-ResidueMax) - 1 THEN ResidueMax ELSE n - 1

\* (mutant) the file is cloned out of the asset, which keeps its data
swapped_out_kept(data) == data

\* the data an asset holds after spawn_tasks swapped it out
swapped_out(data) == "Processed"

\* the loop of spawn_tasks over the taken handles: every asset's data is
\* swapped for Processed, and the file of a Loaded one goes to the task
RECURSIVE take_ase_files(_, _, _)
take_ase_files(handles, assets, ase_files) ==
    IF handles = <<>> THEN [assets |-> assets, ase_files |-> ase_files]
    ELSE LET h == Head(handles)
         IN  take_ase_files(Tail(handles),
                 [assets EXCEPT ![h] = swapped_out(@)],
                 IF assets[h] = "Loaded" THEN Append(ase_files, h) ELSE ase_files)

TypeOK ==
    /\ load_state \in [Files -> {"NotLoaded", "Loading", "Loaded", "Failed"}]
    /\ aseprites \in [Files -> {"Absent", "Loaded", "Processed"}]
    /\ todo_handles \in Seq(Files)
    /\ in_progress \in Int
    /\ lock \in {"free", "main", "worker"}
    /\ pc \in {"idle", "drain", "swap", "materialize"}
    /\ adds \in 0..MaxAdds
    /\ submitted \subseteq Files
    /\ \A t \in DOMAIN tasks :
          tasks[t].st \in {"running", "extracted", "locked", "finished", "panicked"}

\* PlayAnimation::new(animation)
PlayAnimationNew ==
    [current_frame |-> 0, frame_end |-> 0, playing |-> TRUE, looping |-> TRUE]

\* an App without an animated entity
NoEntity ==
    /\ animation = None
    /\ play = PlayAnimationNew
    /\ sprite_index = 0
    /\ time = 0
    /\ local_frame = 0
    /\ local_init = FALSE
    /\ apc = "none"
    /\ called = None

\* Loader::default() and the empty stores of a new App
LoaderInit ==
    /\ load_state = [h \in Files |-> "NotLoaded"]
    /\ aseprites = [h \in Files |-> "Absent"]
    /\ todo_handles = <<>>
    /\ in_progress = 0
    /\ done = <<>>
    /\ lock = "free"
    /\ tasks = <<>>
    /\ pc = "idle"
    /\ finished = <<>>
    /\ resources = [textures |-> EmptyMap, animations |-> EmptyMap,
                    atlases |-> EmptyMap, tilesets |-> EmptyMap,
                    slices |-> EmptyMap, index |-> EmptyMap]
    /\ adds = 0
    /\ submitted = {}

Init ==
    /\ LoaderInit
    /\ ase_file = None
    /\ resource_data = None
    /\ step = "none"
    /\ optional_stores = OptionalStores
    /\ NoEntity

\* ---- the asset server (AseAssetLoader::load on the IO task pool)
\* the bytes decode: the asset is stored with data Loaded(file)
LoadOk(h) ==
    /\ load_state[h] = "Loading"
    /\ AsepriteFile(h).ok
    /\ load_state' = [load_state EXCEPT ![h] = "Loaded"]
    /\ aseprites' = [aseprites EXCEPT ![h] = "Loaded"]
    /\ UNCHANGED <<todo_handles, in_progress, done, lock, tasks, pc, finished,
                   resources, adds, submitted>>
    /\ UNCHANGED file_vars
    /\ UNCHANGED anim_vars

\* AsepriteFile::read(bytes)? fails: the load fails, no asset is stored
LoadFail(h) ==
    /\ load_state[h] = "Loading"
    /\ ~AsepriteFile(h).ok
    /\ load_state' = [load_state EXCEPT ![h] = "Failed"]
    /\ UNCHANGED <<aseprites, todo_handles, in_progress, done, lock, tasks, pc,
                   finished, resources, adds, submitted>>
    /\ UNCHANGED file_vars
    /\ UNCHANGED anim_vars

\* ---- the main context
\* AssetServer::load(path): the handle of the file; a file that was never
\* requested starts to load
asset_server_load(h) ==
    [load_state EXCEPT ![h] = IF @ = "NotLoaded" THEN "Loading" ELSE @]

\* An application system, run between two polls, takes the handle of a file
\* from AssetServer::load and passes it to Loader::add(handle)
Add(h) ==
    /\ pc = "idle"
    /\ adds < MaxAdds
    /\ load_state' = asset_server_load(h)
    /\ todo_handles' = Append(todo_handles, h)
    /\ adds' = adds + 1
    /\ submitted' = submitted \cup {h}
    /\ UNCHANGED <<aseprites, in_progress, done, lock, tasks, pc,
                   finished, resources>>
    /\ UNCHANGED file_vars
    /\ UNCHANGED anim_vars

\* (mutant) spawn_tasks counts one batch per handle
SpawnCountsHandles ==
    /\ pc = "idle"
    /\ all_todo_handles_ready
    /\ todo_handles # <<>>
    /\ LET taken == take_ase_files(todo_handles, aseprites, <<>>)
       IN  /\ in_progress' = in_progress + Len(todo_handles)
           /\ todo_handles' = <<>>
           /\ aseprites' = taken.assets
           /\ tasks' = Append(tasks, [files |-> taken.ase_files,
                                      handles |-> todo_handles,
                                      st |-> "running",
                                      materialized |-> 0,
                                      order |-> <<>>])
    /\ pc' = "drain"
    /\ UNCHANGED <<load_state, done, lock, finished, resources, adds, submitted>>
    /\ UNCHANGED file_vars
    /\ UNCHANGED anim_vars

\* ase_importer, dispatch step: all_todo_handles_ready holds and spawn_tasks
\* finds a non-empty todo list
Spawn ==
    /\ pc = "idle"
    /\ all_todo_handles_ready
    /\ todo_handles # <<>>
    /\ LET taken == take_ase_files(todo_handles, aseprites, <<>>)
       IN  /\ in_progress' = fetch_add(in_progress)
           /\ todo_handles' = <<>>
           /\ aseprites' = taken.assets
           /\ tasks' = Append(tasks, [files |-> taken.ase_files,
                                      handles |-> todo_handles,
                                      st |-> "running",
                                      materialized |-> 0,
                                      order |-> <<>>])
    /\ pc' = "drain"
    /\ UNCHANGED <<load_state, done, lock, finished, resources, adds, submitted>>
    /\ UNCHANGED file_vars
    /\ UNCHANGED anim_vars

\* ase_importer, dispatch step: the handles are not ready, or spawn_tasks
\* returns at once on an empty todo list
NoSpawn ==
    /\ pc = "idle"
    /\ ~all_todo_handles_ready \/ todo_handles = <<>>
    /\ pc' = "drain"
    /\ UNCHANGED <<load_state, aseprites, todo_handles, in_progress, done, lock,
                   tasks, finished, resources, adds, submitted>>
    /\ UNCHANGED file_vars
    /\ UNCHANGED anim_vars

\* (mutant) the drain is skipped while pending handles are not ready
TakeLockIfReady ==
    /\ pc = "drain"
    /\ lock = "free"
    /\ lock' = IF todo_handles = <<>> THEN "main" ELSE lock
    /\ pc' = IF todo_handles = <<>> THEN "swap" ELSE "idle"
    /\ UNCHANGED <<load_state, aseprites, todo_handles, in_progress, done, tasks,
                   finished, resources, adds, submitted>>
    /\ UNCHANGED file_vars
    /\ UNCHANGED anim_vars

\* take_finished: try_lock succeeds
TakeLock ==
    /\ pc = "drain"
    /\ lock = "free"
    /\ lock' = "main"
    /\ pc' = "swap"
    /\ UNCHANGED <<load_state, aseprites, todo_handles, in_progress, done, tasks,
                   finished, resources, adds, submitted>>
    /\ UNCHANGED file_vars
    /\ UNCHANGED anim_vars

\* (mutant) take_finished waits for the mutex (lock() instead of try_lock())
TakeContendedWaits ==
    /\ pc = "drain"
    /\ lock # "free"
    /\ UNCHANGED vars

\* take_finished: try_lock fails, a worker holds the mutex; return None
TakeContended ==
    /\ pc = "drain"
    /\ lock # "free"
    /\ pc' = "idle"
    /\ UNCHANGED <<load_state, aseprites, todo_handles, in_progress, done, lock,
                   tasks, finished, resources, adds, submitted>>
    /\ UNCHANGED file_vars
    /\ UNCHANGED anim_vars

\* where the main context stands once take_finished returned results
after_take(results) == IF results = <<>> THEN "idle" ELSE "materialize"

\* (mutant) take_finished returns with the guard still alive
TakeSwapHoldsLock ==
    /\ pc = "swap"
    /\ finished' = done
    /\ done' = <<>>
    /\ lock' = IF done = <<>> THEN "free" ELSE lock
    /\ pc' = after_take(done)
    /\ UNCHANGED <<load_state, aseprites, todo_handles, in_progress, tasks,
                   resources, adds, submitted>>
    /\ UNCHANGED file_vars
    /\ UNCHANGED anim_vars

\* (mutant) take_finished clones the outbox instead of swapping it out
TakeSwapKeeps ==
    /\ pc = "swap"
    /\ finished' = done
    /\ lock' = "free"
    /\ pc' = after_take(done)
    /\ UNCHANGED <<load_state, aseprites, todo_handles, in_progress, done, tasks,
                   resources, adds, submitted>>
    /\ UNCHANGED file_vars
    /\ UNCHANGED anim_vars

\* take_finished: swap the outbox for an empty Vec and drop the guard
TakeSwap ==
    /\ pc = "swap"
    /\ finished' = done
    /\ done' = <<>>
    /\ lock' = "free"
    /\ pc' = after_take(done)
    /\ UNCHANGED <<load_state, aseprites, todo_handles, in_progress, tasks,
                   resources, adds, submitted>>
    /\ UNCHANGED file_vars
    /\ UNCHANGED anim_vars

\* move_finished_into_resources: one iteration of the loop over finished
Materialize ==
    /\ pc = "materialize"
    /\ LET ase == Head(finished)
       IN  \E order \in Orders(DOMAIN ase.by_file) :
           \E pls \in BatchPlacements(ase.by_file) :
              /\ resources' = by_file_move_into_resources(ase.by_file, order,
                                                          resources, pls)
              /\ tasks' = [tasks EXCEPT ![ase.task].materialized = @ + 1,
                                        ![ase.task].order = order]
    /\ in_progress' = fetch_sub(in_progress)
    /\ finished' = Tail(finished)
    /\ pc' = IF Tail(finished) = <<>> THEN "idle" ELSE "materialize"
    /\ UNCHANGED <<load_state, aseprites, todo_handles, done, lock, adds, submitted>>
    /\ UNCHANGED file_vars
    /\ UNCHANGED anim_vars

\* ---- a background task (the async block of spawn_tasks)
\* ResourceDataByFile::new(ase_files) returns
TaskExtract(t) ==
    /\ tasks[t].st = "running"
    /\ ~ResourceDataByFileNewPanics(tasks[t].files)
    /\ tasks' = [tasks EXCEPT ![t].st = "extracted"]
    /\ UNCHANGED <<load_state, aseprites, todo_handles, in_progress, done, lock,
                   pc, finished, resources, adds, submitted>>
    /\ UNCHANGED file_vars
    /\ UNCHANGED anim_vars

\* ResourceDataByFile::new(ase_files) panics: the task ends without a result
TaskPanic(t) ==
    /\ tasks[t].st = "running"
    /\ ResourceDataByFileNewPanics(tasks[t].files)
    /\ tasks' = [tasks EXCEPT ![t].st = "panicked"]
    /\ UNCHANGED <<load_state, aseprites, todo_handles, in_progress, done, lock,
                   pc, finished, resources, adds, submitted>>
    /\ UNCHANGED file_vars
    /\ UNCHANGED anim_vars

\* output.lock(): blocks until the mutex is free
TaskLock(t) ==
    /\ tasks[t].st = "extracted"
    /\ lock = "free"
    /\ lock' = "worker"
    /\ tasks' = [tasks EXCEPT ![t].st = "locked"]
    /\ UNCHANGED <<load_state, aseprites, todo_handles, in_progress, done, pc,
                   finished, resources, adds, submitted>>
    /\ UNCHANGED file_vars
    /\ UNCHANGED anim_vars

\* (mutant) the task moves its result into the stores by itself
TaskPushMaterializes(t) ==
    /\ tasks[t].st = "locked"
    /\ done' = Append(done, [task |-> t,
                             by_file |-> ResourceDataByFileNew(tasks[t].files)])
    /\ \E order \in Orders(DOMAIN ResourceDataByFileNew(tasks[t].files)) :
       \E pls \in BatchPlacements(ResourceDataByFileNew(tasks[t].files)) :
          resources' = by_file_move_into_resources(
                           ResourceDataByFileNew(tasks[t].files), order,
                           resources, pls)
    /\ lock' = "free"
    /\ tasks' = [tasks EXCEPT ![t].st = "finished"]
    /\ UNCHANGED <<load_state, aseprites, todo_handles, in_progress, pc, finished,
                   adds, submitted>>
    /\ UNCHANGED file_vars
    /\ UNCHANGED anim_vars

\* out.push(processed) and the drop of the guard at the end of the block
TaskPush(t) ==
    /\ tasks[t].st = "locked"
    /\ done' = Append(done, [task |-> t,
                             by_file |-> ResourceDataByFileNew(tasks[t].files)])
    /\ lock' = "free"
    /\ tasks' = [tasks EXCEPT ![t].st = "finished"]
    /\ UNCHANGED <<load_state, aseprites, todo_handles, in_progress, pc, finished,
                   resources, adds, submitted>>
    /\ UNCHANGED file_vars
    /\ UNCHANGED anim_vars

Next ==
    \/ \E h \in Files : LoadOk(h)
    \/ \E h \in Files : LoadFail(h)
    \/ \E h \in Files : Add(h)
    \/ Spawn
    \/ NoSpawn
    \/ TakeLock
    \/ TakeContended
    \/ TakeSwap
    \/ Materialize
    \/ \E t \in DOMAIN tasks : TaskExtract(t)
    \/ \E t \in DOMAIN tasks : TaskPanic(t)
    \/ \E t \in DOMAIN tasks : TaskLock(t)
    \/ \E t \in DOMAIN tasks : TaskPush(t)

Spec == Init /\ [][Next]_vars

\* The scheduler runs ase_importer in every frame, the task pool runs every
\* spawned task, the asset server finishes every load, and a task blocked in
\* lock() gets the mutex once it is released often enough.
Poll == Spawn \/ NoSpawn \/ TakeLock \/ TakeContended \/ TakeSwap \/ Materialize

Fairness ==
    /\ WF_vars(Poll)
    /\ WF_vars(\E h \in Files : LoadOk(h) \/ LoadFail(h))
    /\ WF_vars(\E t \in DOMAIN tasks : TaskExtract(t) \/ TaskPanic(t) \/ TaskPush(t))
    /\ SF_vars(\E t \in DOMAIN tasks : TaskLock(t))

FairSpec == Init /\ [][Next]_vars /\ Fairness

\* ---- one file through ResourceData::new and move_into_resources
\* A caller reads a file, extracts it and moves the result into empty stores.
FileInit ==
    /\ LoaderInit
    /\ \E n \in 1..MaxFrames, a \in 0..MaxItems :
       \E b \in 0..(MaxItems - a) :
       \E c \in 0..(MaxItems - a - b) :
       \E tags \in [1..a -> TagsOf(n)], has_pixels \in [1..b -> BOOLEAN],
          names \in [1..c -> SliceNames] :
          ase_file = Document(n, tags, has_pixels, names)
    /\ resource_data = None
    /\ step = "read"
    /\ optional_stores \in SUBSET OptionalStores
    /\ NoEntity

\* ResourceData::new(path, file) returns
New ==
    /\ step = "read"
    /\ ~ResourceDataNewPanics(ase_file)
    /\ resource_data' = Some(ResourceDataNew(ase_file))
    /\ step' = "extracted"
    /\ UNCHANGED <<loader_vars, resources, ase_file, optional_stores>>
    /\ UNCHANGED anim_vars

\* ResourceData::new(path, file) panics on the expect()
NewPanics ==
    /\ step = "read"
    /\ ResourceDataNewPanics(ase_file)
    /\ step' = "panicked"
    /\ UNCHANGED <<loader_vars, resources, ase_file, resource_data, optional_stores>>
    /\ UNCHANGED anim_vars

\* data.move_into_resources(path, resources)
MoveIntoResources ==
    /\ step = "extracted"
    /\ ~MoveIntoResourcesPanics
    /\ \E placement \in Placements(Len(resource_data[1].sprites)) :
          resources' = move_into_resources(resource_data[1], FilePath,
                                           resources, placement)
    /\ step' = "moved"
    /\ UNCHANGED <<loader_vars, ase_file, resource_data, optional_stores>>
    /\ UNCHANGED anim_vars

\* data.move_into_resources(path, resources) panics: there is no file map
MoveIntoResourcesPanic ==
    /\ step = "extracted"
    /\ MoveIntoResourcesPanics
    /\ step' = "move_panicked"
    /\ UNCHANGED <<loader_vars, resources, ase_file, resource_data, optional_stores>>
    /\ UNCHANGED anim_vars

FileNext == New \/ NewPanics \/ MoveIntoResources \/ MoveIntoResourcesPanic

FileSpec == FileInit /\ [][FileNext]_vars

\* ----------------------------------------------------------------- claims
\* what the claims speak about
IsSome(o) == o # None

\* (mutant) a lookup that falls back on Handle::default() instead of None
animation_lookup_or_default(path, tag_name) ==
    IF path \in DOMAIN resources.index
       /\ tag_name \in DOMAIN resources.index[path].animations
    THEN Some(resources.index[path].animations[tag_name]) ELSE Some(DefaultHandle)

\* AseFileMap::get(path)?.animations(tag_name) and its siblings
animation_lookup(path, tag_name) ==
    IF path \in DOMAIN resources.index
       /\ tag_name \in DOMAIN resources.index[path].animations
    THEN Some(resources.index[path].animations[tag_name]) ELSE None

tileset_lookup(path, id) ==
    IF path \in DOMAIN resources.index
       /\ id \in DOMAIN resources.index[path].tilesets
    THEN Some(resources.index[path].tilesets[id]) ELSE None

\* the file of handle h has been materialized into the index
Materialized(h) == PathOf(h) \in DOMAIN resources.index

\* a dispatched batch whose result has not been drained into the stores
Undrained(t) == tasks[t].materialized = 0

\* number of positions of sequence q that hold x
Occurrences(q, x) == Cardinality({i \in DOMAIN q : q[i] = x})

\* C1: is_loaded() is never true while a dispatched batch has not been
\* materialized (its task still runs, or its result waits in the outbox or
\* in the drained list); an empty outbox alone does not make it true.
C1_NotLoadedWhileBatchOutstanding ==
    is_loaded => \A t \in DOMAIN tasks : ~Undrained(t)

\* C1 witness: a task is running, nothing is pending and the outbox is empty
C1_Witness ==
    /\ pc = "idle" /\ todo_handles = <<>> /\ done = <<>>
    /\ \E t \in DOMAIN tasks : tasks[t].st = "running"
    /\ ~is_loaded

\* C2: is_loaded() is false right after Loader::add, and a step that makes
\* it true is the last step of a poll's drain, after which every handle
\* submitted so far is materialized or has failed to load.
C2_LoadedOnlyAfterDrain ==
    [][ /\ (adds' # adds => ~is_loaded')
        /\ (~is_loaded /\ is_loaded' =>
              /\ pc = "materialize" /\ pc' = "idle"
              /\ \A h \in submitted' :
                    Materialized(h)' \/ load_state'[h] = "Failed") ]_vars

\* C2 witness: handles were submitted and the loader reports loaded again
C2_Witness ==
    /\ is_loaded /\ pc = "idle" /\ submitted # {}
    /\ \A h \in submitted : Materialized(h)

\* C9: is_loaded() is true exactly when the pending-handle list is empty
\* and the in-flight batch counter is zero.
C9_IsLoadedIff ==
    is_loaded <=> (Len(todo_handles) = 0 /\ in_progress = 0)

\* C9 witness: after batches were dispatched and drained, list and counter
\* are both empty again
C9_Witness ==
    /\ Len(tasks) >= 2 /\ Len(todo_handles) = 0 /\ in_progress = 0 /\ is_loaded

\* no submitted file fails to decode and no task's extraction fails
NoFailure ==
    /\ \A h \in submitted : AsepriteFile(h).ok
    /\ \A t \in DOMAIN tasks : ~ResourceDataByFileNewPanics(tasks[t].files)

\* C3: when every submitted handle gets loaded and no background task
\* fails, then, once no further handle is added, is_loaded() eventually is
\* true and stays true (calls of add are finitely many in every behaviour).
C3_EventuallyLoaded == <>[](NoFailure => is_loaded)

\* C3 witness: all submitted files were dispatched in batches, drained, and
\* the loader is idle
C3_Witness ==
    /\ NoFailure /\ is_loaded /\ adds = MaxAdds
    /\ \A h \in submitted : Materialized(h)
    /\ \A t \in DOMAIN tasks : tasks[t].st = "finished"

\* the three files of the scenario: A and C decode, B does not
Scenario == [A |-> 1, B |-> 2, C |-> 3]
FileA == Scenario.A
FileB == Scenario.B
FileC == Scenario.C

\* A, B and C are pending together
SubmittedTogether ==
    \A f \in {FileA, FileB, FileC} : \E i \in DOMAIN todo_handles : todo_handles[i] = f

\* C4 (as claimed): when A, B and C are submitted together and B fails to
\* decode, sufficient polling leads to a state where the lookups of A's and
\* C's animations and tilesets return handles and B's animation lookup
\* misses.
C4_SiblingsMaterialized ==
    SubmittedTogether ~>
        /\ IsSome(animation_lookup(PathOf(FileA), "Idle"))
        /\ IsSome(tileset_lookup(PathOf(FileA), 0))
        /\ IsSome(animation_lookup(PathOf(FileC), "Idle"))
        /\ IsSome(tileset_lookup(PathOf(FileC), 0))
        /\ animation_lookup(PathOf(FileB), "Idle") = None

\* C5 (as claimed): after a submission that contains a file that failed to
\* decode, is_loaded() eventually becomes true.
C5_LoadedDespiteDecodeFailure ==
    (\E h \in submitted : load_state[h] = "Failed") ~> is_loaded

\* the batches that can still deliver a result: dispatched, not failed, not
\* yet drained
LiveBatches ==
    {t \in DOMAIN tasks : tasks[t].st # "panicked" /\ Undrained(t)}

\* C6 (as claimed): a batch whose extraction failed gets the in-flight
\* counter decremented for it: after the failure the counter comes to count
\* only the batches that can still be drained.
C6_FailedBatchDecrements ==
    (\E t \in DOMAIN tasks : tasks[t].st = "panicked") ~>
        (in_progress = Cardinality(LiveBatches))

\* the step is one of the main context inside ase_importer
MainStep == pc' # pc

\* C7: a poll never waits for the outbox lock.  When a worker holds it at
\* the poll's take_finished, the main context still has a step, that step
\* ends the poll and leaves the outbox, the counter, the stores and the
\* index unchanged, and the batch the worker was pushing is materialized by
\* a later poll (tasks are finitely many and a drained batch stays drained,
\* so this is: from some point on every batch that got the lock is drained).
C7_ContendedPollSkips ==
    /\ [](pc = "drain" => ENABLED <<TakeLock \/ TakeContended>>_vars)
    /\ [][pc = "drain" /\ lock = "worker" /\ MainStep =>
             /\ pc' = "idle"
             /\ UNCHANGED <<done, in_progress, resources, finished>>]_vars
    /\ <>[](\A t \in DOMAIN tasks :
               tasks[t].st \in {"locked", "finished"} => tasks[t].materialized = 1)

\* C7 witness: the poll reaches take_finished while a worker holds the lock
\* of an outbox that already has a finished batch in it
C7_Witness ==
    /\ pc = "drain" /\ lock = "worker" /\ done # <<>>
    /\ \E t \in DOMAIN tasks : tasks[t].st = "locked"

\* the set of elements of a sequence
Elems(q) == {q[i] : i \in DOMAIN q}

\* C8: the dispatch step of a poll with a non-empty pending list whose
\* handles are all loaded moves all of them into exactly one new task,
\* empties the list and adds exactly 1 to the counter; with an empty list
\* it spawns nothing and leaves the counter alone.
C8_OneTaskPerDispatch ==
    [][pc = "idle" /\ pc' = "drain" =>
         /\ (todo_handles # <<>> /\ all_todo_handles_ready =>
                /\ todo_handles' = <<>>
                /\ in_progress' = in_progress + 1
                /\ Len(tasks') = Len(tasks) + 1
                /\ \A t \in DOMAIN tasks : tasks'[t] = tasks[t]
                /\ tasks'[Len(tasks')].st = "running"
                /\ Elems(tasks'[Len(tasks')].files) =
                      {h \in Elems(todo_handles) : aseprites[h] = "Loaded"}
                /\ \A h \in Elems(todo_handles) : aseprites'[h] = "Processed")
         /\ (todo_handles = <<>> =>
                tasks' = tasks /\ in_progress' = in_progress)]_vars

\* C8 witness: a poll has just dispatched a pending list of two or more
\* handles as one task
C8_Witness ==
    /\ pc = "drain" /\ todo_handles = <<>> /\ tasks # <<>>
    /\ tasks[Len(tasks)].st = "running"
    /\ Len(tasks[Len(tasks)].handles) >= 2
    /\ Len(tasks[Len(tasks)].files) >= 2

\* how often the document of handle h was extracted / materialized
ExtractCount(h) ==
    Cardinality(UNION {{<<t, i>> : i \in {j \in DOMAIN tasks[t].files :
                                            tasks[t].files[j] = h}} :
                       t \in {u \in DOMAIN tasks :
                                tasks[u].st \in {"extracted", "locked", "finished"}}})

MaterializeCount(h) ==
    Cardinality(UNION {{<<t, i>> : i \in {j \in DOMAIN tasks[t].files :
                                            tasks[t].files[j] = h}}
                          \X (1..tasks[t].materialized) :
                       t \in DOMAIN tasks})

\* the stores and the index restricted to the ids of one file
OfPath(store, path) == {id \in DOMAIN store : id[1] = path}

\* the stores and index after a single file was submitted once and
\* materialized, for some placement of the packer
SingleSubmission(h) ==
    {move_into_resources(ResourceDataNew(AsepriteFile(h)), PathOf(h),
                         [textures |-> EmptyMap, animations |-> EmptyMap,
                          atlases |-> EmptyMap, tilesets |-> EmptyMap,
                          slices |-> EmptyMap, index |-> EmptyMap], pl) :
        pl \in Placements(Len(AsepriteFile(h).frames))}

\* C10: however often a handle was added, once all batches are drained its
\* document was extracted once and materialized once, and the stores and
\* the index hold for its file what a single submission leaves: one atlas
\* and one handle per name.
C10_ResubmissionMaterializesOnce ==
    is_loaded =>
        \A h \in submitted :
            /\ ExtractCount(h) = 1
            /\ MaterializeCount(h) = 1
            /\ Cardinality(OfPath(resources.atlases, PathOf(h))) = 1
            /\ \E one \in SingleSubmission(h) :
                  /\ resources.index[PathOf(h)] = one.index[PathOf(h)]
                  /\ \A store \in {"textures", "animations", "atlases",
                                   "tilesets", "slices"} :
                        /\ OfPath(resources[store], PathOf(h)) = DOMAIN one[store]
                        /\ \A id \in DOMAIN one[store] :
                              resources[store][id] = one[store][id]

\* C10 witness: a handle was added twice before its first batch completed
\* (twice into one pending list, or again while its batch was not drained),
\* and everything is drained
C10_Witness ==
    /\ is_loaded
    /\ \E h \in submitted :
          \/ \E t \in DOMAIN tasks : Occurrences(tasks[t].handles, h) >= 2
          \/ \E t, u \in DOMAIN tasks :
                /\ t < u
                /\ Occurrences(tasks[t].handles, h) >= 1
                /\ Occurrences(tasks[u].handles, h) >= 1

\* ------------------------------------------- claims about one file's data
\* the positions of the tags of ase_file that carry the given name
TagsNamed(name) == {k \in DOMAIN ase_file.tags : ase_file.tags[k].name = name}

FirstOf(S) == CHOOSE k \in S : \A j \in S : k <= j
LastOf(S)  == CHOOSE k \in S : \A j \in S : j <= k

\* the frames an Animation made of the given tag shows: for every frame of
\* the declared range, in order, its slot in the file's atlas and its duration
FramesOfTag(tag) ==
    [k \in 1..(tag.to_frame - tag.from_frame + 1) |->
        [atlas_index |-> resources.atlases[atlas_id(FilePath)]
                            .texture_handles[frame_image_id(FilePath,
                                                            tag.from_frame + k - 1)],
         duration_ms |-> ase_file.frames[tag.from_frame + k].duration]]

\* the Animation assets stored for the file
StoredAnimations == {id \in DOMAIN resources.animations : id[1] = FilePath}

\* C11: for a file with several tags of one name, every such tag is extracted,
\* and once the file is materialized (into an application that has the stores
\* of animations and atlases) exactly one Animation is stored per tag
\* name; the lookup by the name yields the handle of a stored Animation, and
\* that Animation is, whatever the packer and the run, the one of the tag
\* declared last under the name.
C11_DuplicateTagKeepsOne ==
    (step = "moved" /\ {"animations", "atlases"} \subseteq optional_stores) =>
        /\ Cardinality(StoredAnimations)
              = Cardinality({ase_file.tags[k].name : k \in DOMAIN ase_file.tags})
        /\ \A name \in TagNames :
              Cardinality(TagsNamed(name)) >= 2 =>
                 /\ Cardinality({i \in DOMAIN resource_data[1].anims :
                                    resource_data[1].anims[i].tag_name = Some(name)})
                       = Cardinality(TagsNamed(name))
                 /\ IsSome(animation_lookup(FilePath, name))
                 /\ animation_lookup(FilePath, name)[1] \in DOMAIN resources.animations
                 /\ resources.animations[animation_lookup(FilePath, name)[1]].frames
                       = FramesOfTag(ase_file.tags[LastOf(TagsNamed(name))])

\* C11 witness: a materialized file with two tags of one name that show
\* different frames
C11_Witness ==
    /\ step = "moved"
    /\ {"animations", "atlases"} \subseteq optional_stores
    /\ \E name \in TagNames :
          /\ Cardinality(TagsNamed(name)) >= 2
          /\ FramesOfTag(ase_file.tags[FirstOf(TagsNamed(name))])
                # FramesOfTag(ase_file.tags[LastOf(TagsNamed(name))])

\* AseFileMap::slice(path, slice_name)
slice_lookup(path, slice_name) ==
    IF path \in DOMAIN resources.index
       /\ slice_name \in DOMAIN resources.index[path].slices
    THEN Some(resources.index[path].slices[slice_name]) ELSE None

\* the positions of the slices of ase_file that carry the given name
SlicesNamed(name) ==
    {k \in DOMAIN ase_file.slices : ase_file.slices[k].name = name}

\* C12: when several tags (or several slices) of a file share a name, the
\* lookup by that name in the materialized file (every store being present)
\* returns the asset of the first one declared with the name.
C12_LookupReturnsFirstDeclared ==
    (step = "moved" /\ optional_stores = OptionalStores) =>
        /\ \A name \in TagNames :
              TagsNamed(name) # {} =>
                 /\ IsSome(animation_lookup(FilePath, name))
                 /\ resources.animations[animation_lookup(FilePath, name)[1]].frames
                       = FramesOfTag(ase_file.tags[FirstOf(TagsNamed(name))])
        /\ \A name \in SliceNames :
              SlicesNamed(name) # {} =>
                 /\ IsSome(slice_lookup(FilePath, name))
                 /\ resources.slices[slice_lookup(FilePath, name)[1]]
                       = from_ase(ase_file.slices[FirstOf(SlicesNamed(name))])

\* ResourceData::new has returned for ase_file
Extracted == step \in {"extracted", "moved"}

\* C13: for a file with N frames the extraction produces exactly N frame
\* records, whose frame fields are 0..N-1 in that order, and its first
\* animation record has no tag name and lists the frame indices 0..N-1 in
\* order.
C13_FramesAndDefaultAnimation ==
    Extracted =>
        LET n == Len(ase_file.frames)
            d == resource_data[1]
        IN  /\ Len(d.sprites) = n
            /\ \A i \in 1..n :
                  /\ d.sprites[i].frame = i - 1
                  /\ d.sprites[i].texture = ase_file.frames[i].image
                  /\ d.sprites[i].duration = ase_file.frames[i].duration
            /\ d.anims # <<>>
            /\ d.anims[1].tag_name = None
            /\ Len(d.anims[1].sprites) = n
            /\ \A i \in 1..n : d.anims[1].sprites[i] = i - 1

\* C13 witness: a file with more than one frame has been extracted
C13_Witness ==
    /\ step = "extracted"
    /\ Len(ase_file.frames) >= 2
    /\ Len(resource_data[1].anims[1].sprites) >= 2

\* C14: the record after the whole-file default that stands at the position
\* of the k-th declared tag carries that tag's name, and its frame indices
\* are from_frame, from_frame + 1, ..., to_frame, both ends included.
C14_TagRangeInclusive ==
    Extracted =>
        LET d == resource_data[1]
        IN  /\ Len(d.anims) = 1 + Len(ase_file.tags)
            /\ \A k \in DOMAIN ase_file.tags :
                  LET tag == ase_file.tags[k]
                      rec == d.anims[k + 1]
                  IN  /\ rec.tag_name = Some(tag.name)
                      /\ Len(rec.sprites) =
                            IF tag.from_frame <= tag.to_frame
                            THEN tag.to_frame - tag.from_frame + 1 ELSE 0
                      /\ \A i \in DOMAIN rec.sprites :
                            rec.sprites[i] = tag.from_frame + i - 1
                      /\ tag.from_frame <= tag.to_frame =>
                            /\ rec.sprites[1] = tag.from_frame
                            /\ rec.sprites[Len(rec.sprites)] = tag.to_frame

\* C14 witness: the second declared tag spans more than one frame
C14_Witness ==
    /\ step = "extracted"
    /\ Len(ase_file.tags) >= 2
    /\ ase_file.tags[2].from_frame < ase_file.tags[2].to_frame
    /\ Len(resource_data[1].anims[3].sprites) >= 2

\* a tag of ase_file declares an empty or inverted range
HasInvertedTag ==
    \E k \in DOMAIN ase_file.tags :
        ase_file.tags[k].from_frame > ase_file.tags[k].to_frame

\* C15: the extraction of a file with a tag whose range is inverted never
\* returns a result (it ends in an error), and every animation record an
\* extraction returns has a non-empty frame list within the file's frames.
C15_InvertedTagIsError ==
    /\ HasInvertedTag => ~Extracted
    /\ Extracted =>
          \A i \in DOMAIN resource_data[1].anims :
              /\ resource_data[1].anims[i].sprites # <<>>
              /\ \A j \in DOMAIN resource_data[1].anims[i].sprites :
                    resource_data[1].anims[i].sprites[j] < Len(ase_file.frames)

\* ------------------------------------------------ claims about the Loader
\* the file of handle h has gone through a drain of the poll
EverMaterialized(h) ==
    \E t \in DOMAIN tasks : tasks[t].materialized >= 1 /\ h \in Elems(tasks[t].files)

\* the names and ids a caller may ask for
ProbeNames == TagNames \cup SliceNames \cup {"", "default"}
ProbeIds == 0..MaxItems

\* the names and ids the file of handle h declares
TagNamesOf(h) == {AsepriteFile(h).tags[k].name : k \in DOMAIN AsepriteFile(h).tags}
SliceNamesOf(h) ==
    {AsepriteFile(h).slices[k].name : k \in DOMAIN AsepriteFile(h).slices}
TilesetIdsOf(h) ==
    {AsepriteFile(h).tilesets[k].id : k \in DOMAIN AsepriteFile(h).tilesets}

\* C16: in every reachable state the lookups of animations, slices and
\* tilesets return None for a path that was never materialized and for a
\* name or id that was never registered under the path.
C16_LookupMissIsAbsent ==
    /\ \A name \in ProbeNames, id \in ProbeIds :
          /\ animation_lookup("unknown.aseprite", name) = None
          /\ slice_lookup("unknown.aseprite", name) = None
          /\ tileset_lookup("unknown.aseprite", id) = None
    /\ \A h \in Files : \A name \in ProbeNames, id \in ProbeIds :
          /\ (~EverMaterialized(h) \/ name \notin TagNamesOf(h))
                => animation_lookup(PathOf(h), name) = None
          /\ (~EverMaterialized(h) \/ name \notin SliceNamesOf(h))
                => slice_lookup(PathOf(h), name) = None
          /\ (~EverMaterialized(h) \/ id \notin TilesetIdsOf(h))
                => tileset_lookup(PathOf(h), id) = None

\* C16 witness: file C is materialized and file A, submitted as well, is not
\* yet; a name C does not declare misses while one it declares is found
C16_Witness ==
    /\ pc = "idle"
    /\ EverMaterialized(FileC)
    /\ FileA \in submitted
    /\ ~EverMaterialized(FileA)
    /\ IsSome(animation_lookup(PathOf(FileC), "Idle"))
    /\ animation_lookup(PathOf(FileC), "Run") = None
    /\ animation_lookup(PathOf(FileA), "Idle") = None

\* the number of handles in the batches that are dispatched and not drained
RECURSIVE HandlesInProcess(_)
HandlesInProcess(t) ==
    IF t = 0 THEN 0
    ELSE HandlesInProcess(t - 1)
         + (IF Undrained(t) THEN Len(tasks[t].handles) ELSE 0)

\* C17: between two polls, pending_count() is the number of AseAsset handles
\* that are being processed.
C17_PendingCountCountsHandles ==
    pc = "idle" => pending_count = HandlesInProcess(Len(tasks))

\* the file data handle h has been taken into a background task
Dispatched(h) == \E t \in DOMAIN tasks : h \in Elems(tasks[t].handles)

\* AseAsset::file() of the asset of handle h
file_of(h) == IF aseprites[h] = "Loaded" THEN Some(AsepriteFile(h)) ELSE None

\* C18: the asset of a handle yields its file data exactly while no poll has
\* dispatched the handle; from its dispatch on (the handles of the tasks are
\* never forgotten) its data is Processed, whatever is added or polled later.
C18_FileUntilDispatch ==
    \A h \in Files :
        /\ Dispatched(h) => aseprites[h] = "Processed" /\ file_of(h) = None
        /\ (aseprites[h] # "Absent" /\ ~Dispatched(h)) =>
              aseprites[h] = "Loaded" /\ file_of(h) = Some(AsepriteFile(h))

\* C18 witness: a handle was dispatched, added again and dispatched again,
\* and its asset holds no file data
C18_Witness ==
    \E h \in Files : \E t, u \in DOMAIN tasks :
        /\ t < u
        /\ h \in Elems(tasks[t].handles)
        /\ h \in Elems(tasks[u].handles)
        /\ tasks[t].files # <<>>
        /\ file_of(h) = None

\* C19: an extraction that returns yields exactly one tileset record per
\* tileset the file declares, in the declared order (one record for a file
\* with one tileset).
C19_OneRecordPerTileset ==
    Extracted =>
        /\ Len(resource_data[1].tilesets) = Len(ase_file.tilesets)
        /\ \A i \in DOMAIN ase_file.tilesets :
              /\ resource_data[1].tilesets[i].id = ase_file.tilesets[i].id
              /\ resource_data[1].tilesets[i].name = ase_file.tilesets[i].name
              /\ resource_data[1].tilesets[i].tile_count
                    = ase_file.tilesets[i].tile_count
              /\ Some(resource_data[1].tilesets[i].texture)
                    = ase_file.tilesets[i].pixels

\* C19 witness: a file that declares two tilesets has been extracted
C19_Witness ==
    /\ step = "extracted"
    /\ Len(ase_file.tilesets) >= 2
    /\ Len(resource_data[1].tilesets) >= 2

\* AseFileMap::get(path)?.texture(frame_index)
texture_lookup(path, frame_index) ==
    IF path \in DOMAIN resources.index
       /\ frame_index \in DOMAIN resources.index[path].textures
    THEN Some(resources.index[path].textures[frame_index]) ELSE None

\* C20: once a file with N frames is materialized (into an application that
\* has the store of atlases), each of its N frames has
\* one slot of its own in the file's atlas and one image handle in the index
\* under its frame index: texture(i) is present for i < N, absent for i >= N.
C20_OneSlotAndHandlePerFrame ==
    (step = "moved" /\ "atlases" \in optional_stores) =>
        LET n == Len(ase_file.frames)
            atlas == resources.atlases[resources.index[FilePath].atlas]
        IN  /\ resources.index[FilePath].atlas \in DOMAIN resources.atlases
            /\ Cardinality(DOMAIN atlas.texture_handles) = n
            /\ \A i \in 0..(n - 1) :
                  /\ IsSome(texture_lookup(FilePath, i))
                  /\ texture_lookup(FilePath, i)[1] \in DOMAIN resources.textures
                  /\ resources.textures[texture_lookup(FilePath, i)[1]]
                        = ase_file.frames[i + 1].image
                  /\ texture_lookup(FilePath, i)[1] \in DOMAIN atlas.texture_handles
                  /\ atlas.texture_handles[texture_lookup(FilePath, i)[1]]
                        \in 0..(n - 1)
            /\ \A i, j \in 0..(n - 1) :
                  i # j =>
                     /\ texture_lookup(FilePath, i) # texture_lookup(FilePath, j)
                     /\ atlas.texture_handles[texture_lookup(FilePath, i)[1]]
                           # atlas.texture_handles[texture_lookup(FilePath, j)[1]]
            /\ \A i \in n..(MaxFrames + 1) : texture_lookup(FilePath, i) = None

\* C20 witness: a materialized file with two frames or more whose packer did
\* not keep the frame order
C20_Witness ==
    /\ step = "moved"
    /\ "atlases" \in optional_stores
    /\ Len(ase_file.frames) >= 2
    /\ resources.atlases[atlas_id(FilePath)]
          .texture_handles[frame_image_id(FilePath, 0)] # 0

\* C21: every Animation stored for a materialized file lists, in the frame
\* order of a tag of its name, one frame per frame of the tag's range, with
\* the atlas slot of that source frame's image and that source frame's
\* duration, and it refers to the atlas of its own file.
C21_AnimationFramesFollowTag ==
    step = "moved" =>
        \A id \in StoredAnimations :
            LET anim  == resources.animations[id]
                atlas == resources.atlases[atlas_id(FilePath)]
            IN  /\ anim.atlas = atlas_id(FilePath)
                /\ anim.atlas = resources.index[FilePath].atlas
                /\ anim.atlas \in DOMAIN resources.atlases
                /\ \E k \in DOMAIN ase_file.tags :
                      LET tag == ase_file.tags[k]
                      IN  /\ id = animation_id(FilePath, tag.name)
                          /\ Len(anim.frames) =
                                IF tag.from_frame <= tag.to_frame
                                THEN tag.to_frame - tag.from_frame + 1 ELSE 0
                          /\ \A i \in DOMAIN anim.frames :
                                /\ anim.frames[i].atlas_index =
                                      atlas.texture_handles[
                                          resources.index[FilePath]
                                              .textures[tag.from_frame + i - 1]]
                                /\ anim.frames[i].duration_ms =
                                      ase_file.frames[tag.from_frame + i].duration

\* C21 witness: a stored Animation of two frames whose atlas slots are not
\* the frame indices
C21_Witness ==
    /\ step = "moved"
    /\ \E id \in StoredAnimations :
          /\ Len(resources.animations[id].frames) = 2
          /\ resources.animations[id].frames[1].atlas_index = 1
          /\ resources.animations[id].frames[1].duration_ms
                = ase_file.frames[1].duration

\* a batch result that comes out of the background task with the atlas of
\* every file already packed
Packed(batch) ==
    \A p \in DOMAIN batch.by_file : "atlas" \in DOMAIN batch.by_file[p]

\* C22: the atlas of a batch's frames is packed inside the background task:
\* every result the task pushes to the outbox, and every result the poll
\* takes out of it, carries its packed atlases, so that the drain has no
\* packing left to do.
C22_PackingInBackground ==
    /\ \A i \in DOMAIN done : Packed(done[i])
    /\ \A i \in DOMAIN finished : Packed(finished[i])

\* C23: whichever of the optional stores are absent, moving an extracted file
\* into the resources ends without a failure and inserts the assets of every
\* store that is present: the atlas, one Animation per tag name, one Tileset
\* per tileset and one Slice per slice name.
C23_AbsentStoresHandled ==
    /\ step # "move_panicked"
    /\ step = "moved" =>
          /\ "atlases" \in optional_stores =>
                atlas_id(FilePath) \in DOMAIN resources.atlases
          /\ "animations" \in optional_stores =>
                \A k \in DOMAIN ase_file.tags :
                    animation_id(FilePath, ase_file.tags[k].name)
                        \in DOMAIN resources.animations
          /\ "tilesets" \in optional_stores =>
                \A k \in DOMAIN ase_file.tilesets :
                    tileset_id(FilePath, ase_file.tilesets[k].id)
                        \in DOMAIN resources.tilesets
          /\ "slices" \in optional_stores =>
                \A k \in DOMAIN ase_file.slices :
                    slice_id(FilePath, ase_file.slices[k].name)
                        \in DOMAIN resources.slices

\* a handle of the pending list is not (yet) loaded
SomePendingNotLoaded ==
    \E i \in DOMAIN todo_handles : load_state[todo_handles[i]] # "Loaded"

\* C24: the dispatch step of a poll that finds a pending handle not loaded
\* dispatches nothing: the pending list, the in-flight counter, the tasks and
\* the data of every asset are as before, also for the loaded handles that
\* wait in the same list.
C24_NoDispatchUntilAllLoaded ==
    [][(pc = "idle" /\ pc' = "drain" /\ SomePendingNotLoaded) =>
          /\ todo_handles' = todo_handles
          /\ in_progress' = in_progress
          /\ tasks' = tasks
          /\ aseprites' = aseprites]_vars

\* C24 witness: the dispatch step has run over a pending list that holds a
\* loaded handle, whose asset still has its file, and one that is loading
C24_Witness ==
    /\ pc = "drain"
    /\ \E i, j \in DOMAIN todo_handles :
          /\ load_state[todo_handles[i]] = "Loaded"
          /\ aseprites[todo_handles[i]] = "Loaded"
          /\ load_state[todo_handles[j]] = "Loading"

\* the number of results of task t in a sequence of batch results
ResultsOf(t, results) == Cardinality({i \in DOMAIN results : results[i].task = t})

\* C25: every batch result pushed to the outbox is materialized exactly once:
\* a pushed result is in the outbox, or taken by the running drain, or
\* materialized (one of the three, once), and in the end it is materialized;
\* every materialized batch takes exactly one off the in-flight counter,
\* whatever the number of its files; a drain that got the lock leaves the
\* outbox empty.
C25_EachResultDrainedOnce ==
    /\ [](\A t \in DOMAIN tasks :
            ResultsOf(t, done) + ResultsOf(t, finished) + tasks[t].materialized
               = IF tasks[t].st = "finished" THEN 1 ELSE 0)
    /\ [][(pc = "materialize" /\ (finished' # finished \/ resources' # resources)) =>
             /\ in_progress' = in_progress - 1
             /\ tasks'[Head(finished).task].materialized = 1
             /\ \A t \in DOMAIN tasks : t # Head(finished).task => tasks'[t] = tasks[t]
             /\ finished' = Tail(finished)]_vars
    /\ [][(pc = "swap" /\ pc' # "swap") => (done' = <<>> /\ finished' = done)]_vars
    /\ <>[](\A t \in DOMAIN tasks :
               tasks[t].st = "finished" => tasks[t].materialized = 1)

\* C25 witness: two results were taken in one drain and both are materialized,
\* one of them a batch of two files, and the counter is back at zero
C25_Witness ==
    /\ pc = "idle"
    /\ in_progress = 0
    /\ \E t, u \in DOMAIN tasks :
          /\ t # u
          /\ tasks[t].materialized = 1
          /\ tasks[u].materialized = 1
          /\ Len(tasks[t].files) = 2

\* the background tasks that still run (they have not pushed their result)
StillRunning == {t \in DOMAIN tasks : tasks[t].st \in {"running", "extracted", "locked"}}

\* C26: in every reachable state the in-flight counter is the number of
\* dispatched batches whose result is not drained yet, that is the tasks that
\* still run plus the results that wait in the outbox (or in the hands of the
\* running drain); it is never below zero.
C26_CounterIsUndrainedBatches ==
    /\ in_progress = Cardinality(StillRunning) + Len(done) + Len(finished)
    /\ in_progress >= 0

\* how many files of the tasks spawned so far are the document of handle h
FilesGiven(h) ==
    Cardinality(UNION {{<<t, i>> : i \in {j \in DOMAIN tasks[t].files :
                                            tasks[t].files[j] = h}} :
                       t \in DOMAIN tasks})

\* C27: over any sequence of add and poll the document of a handle goes to
\* exactly one background task, the first that takes the handle, and is
\* extracted at most once: a handle that appears again in the same batch or
\* in a later batch contributes no file.
C27_DocumentExtractedAtMostOnce ==
    \A h \in Files :
        /\ FilesGiven(h) = IF Dispatched(h) THEN 1 ELSE 0
        /\ ExtractCount(h) <= 1
        /\ \A t \in DOMAIN tasks :
              h \in Elems(tasks[t].files) =>
                 \A u \in 1..(t - 1) : h \notin Elems(tasks[u].handles)

\* C27 witness: a handle stands twice in one batch and once more in a later
\* batch; the first batch got its one file and is extracted, the later none
C27_Witness ==
    \E h \in Files : \E t, u \in DOMAIN tasks :
        /\ t < u
        /\ Occurrences(tasks[t].handles, h) = 2
        /\ tasks[t].files = <<h>>
        /\ tasks[t].st = "finished"
        /\ h \in Elems(tasks[u].handles)
        /\ tasks[u].files = <<>>

\* a background task takes a step
WorkerStep ==
    \E t \in DOMAIN tasks : t \in DOMAIN tasks' /\ tasks'[t].st # tasks[t].st

\* C28: the stores and the AseFileMap index change only in the drain step of
\* a poll, when the main context materializes a taken batch: Loader::add and
\* the dispatch step leave them unchanged, and a step of a background task
\* changes nothing but the outbox (with its mutex) and the task itself.
C28_StoresChangeOnlyInDrain ==
    [][/\ resources' # resources =>
             /\ pc = "materialize"
             /\ finished # <<>>
             /\ finished' = Tail(finished)
       /\ adds' # adds => resources' = resources
       /\ (pc = "idle" /\ pc' = "drain") => resources' = resources
       /\ WorkerStep =>
             UNCHANGED <<resources, load_state, aseprites, todo_handles,
                         in_progress, pc, finished, adds, submitted>>]_vars

\* C28 witness: a drain has filled the stores and the index while another
\* background task holds the outbox
C28_Witness ==
    /\ resources.index # EmptyMap
    /\ resources.atlases # EmptyMap
    /\ \E t, u \in DOMAIN tasks :
          tasks[t].materialized = 1 /\ tasks[u].st = "locked"

\* the paths of the files of task t in the order their handles were submitted
SubmissionOrder(t) == [i \in DOMAIN tasks[t].files |-> PathOf(tasks[t].files[i])]

\* C29: the files of one dispatched batch are materialized in the order in
\* which their handles were submitted.
C29_BatchKeepsSubmissionOrder ==
    \A t \in DOMAIN tasks :
        tasks[t].materialized >= 1 => tasks[t].order = SubmissionOrder(t)

\* a batch dispatched later was materialized while a batch dispatched
\* earlier, which can still deliver its result, was not
Reordered ==
    \E t, u \in DOMAIN tasks :
        /\ t < u
        /\ tasks[u].materialized >= 1
        /\ tasks[t].materialized = 0
        /\ tasks[t].st # "panicked"

\* C30: whenever a batch dispatched later has been materialized before a
\* batch dispatched earlier, the counter still is the number of batches that
\* run or wait to be drained, and is_loaded() is true exactly when nothing is
\* pending and no batch is left to drain.
C30_ReorderKeepsAccounting ==
    Reordered =>
        /\ in_progress = Cardinality(StillRunning) + Len(done) + Len(finished)
        /\ is_loaded <=> (todo_handles = <<>> /\ LiveBatches = {})

\* C31: every poll goes on to the drain step, whether it dispatched or not,
\* and tries the outbox lock there; a poll that got the lock takes every
\* result that waits in the outbox, and it ends only when each of them has
\* been moved into the stores.
C31_DrainRunsEveryPoll ==
    [][ /\ (pc = "idle" /\ pc' # pc) => pc' = "drain"
        /\ (pc = "drain" /\ pc' # pc /\ lock = "free") => pc' = "swap"
        /\ (pc = "swap" /\ pc' # pc) => (finished' = done /\ done' = <<>>)
        /\ (pc = "materialize" /\ pc' = "idle") =>
               (finished' = <<>> /\ tasks'[Head(finished).task].materialized = 1)
        /\ (pc = "materialize" /\ pc' = pc /\ finished' # finished) =>
               tasks'[Head(finished).task].materialized = 1 ]_vars

\* C31 witness: a finished batch is being materialized by a poll that could
\* not dispatch, because a submitted handle is still loading
C31_Witness ==
    /\ pc = "materialize"
    /\ finished # <<>>
    /\ todo_handles # <<>>
    /\ \E i \in DOMAIN todo_handles : load_state[todo_handles[i]] = "Loading"

\* C32: the main context holds the outbox lock only in the swap of
\* take_finished, never while it materializes, and while it materializes a
\* worker that waits for the lock can take it.
C32_LockFreeWhileMaterializing ==
    /\ lock = "main" <=> pc = "swap"
    /\ (pc = "materialize" /\ lock = "free") =>
           \A t \in DOMAIN tasks : tasks[t].st = "extracted" => ENABLED TaskLock(t)

\* C32 witness: a worker holds the lock and is about to push its result
\* while the main context materializes the batches it swapped out
C32_Witness ==
    /\ pc = "materialize"
    /\ finished # <<>>
    /\ lock = "worker"
    /\ \E t \in DOMAIN tasks : tasks[t].st = "locked"

\* every handle the index res.index holds is the key of an asset in the
\* store of its kind
IndexedHandlesPresent(res) ==
    \A p \in DOMAIN res.index :
        LET e == res.index[p]
        IN  /\ \A n \in DOMAIN e.animations : e.animations[n] \in DOMAIN res.animations
            /\ \A n \in DOMAIN e.slices : e.slices[n] \in DOMAIN res.slices
            /\ \A i \in DOMAIN e.tilesets : e.tilesets[i] \in DOMAIN res.tilesets
            /\ \A f \in DOMAIN e.textures : e.textures[f] \in DOMAIN res.textures
            /\ e.atlas \in DOMAIN res.atlases

DeclaredTagNames == {ase_file.tags[k].name : k \in DOMAIN ase_file.tags}

\* C34: the whole-file animation, the record without a tag name, is
\* extracted, but once the file is materialized (into an application that
\* has the stores of animations and atlases) the animation names of its
\* index entry are exactly its tag names, and the stored Animations of the
\* file are exactly those of its tag names.
C34_DefaultAnimationNotStored ==
    (step = "moved" /\ {"animations", "atlases"} \subseteq optional_stores) =>
        /\ resource_data[1].anims[1].tag_name = None
        /\ DOMAIN resources.index[FilePath].animations = DeclaredTagNames
        /\ StoredAnimations = {animation_id(FilePath, name) : name \in DeclaredTagNames}
        /\ \A name \in DeclaredTagNames :
              resources.index[FilePath].animations[name] = animation_id(FilePath, name)

\* C34 witness: a materialized file with one tag, whose extraction held two
\* animation records, has one stored Animation and one indexed name
C34_Witness ==
    /\ step = "moved"
    /\ {"animations", "atlases"} \subseteq optional_stores
    /\ Len(ase_file.tags) = 1
    /\ Len(resource_data[1].anims) = 2
    /\ Cardinality(StoredAnimations) = 1
    /\ Cardinality(DOMAIN resources.index[FilePath].animations) = 1

\* --------------------------------------------- animate.rs: sprite_animator
\* One entity with a TextureAtlasSprite and a PlayAnimation.  Every frame of
\* the App runs game_timer and then sprite_animator (it is added
\* .after(timer::Label)); the body of sprite_animator's for loop is cut at
\* the iterations of its while loop.

\* the Animations an entity can play: 1..MaxFrames frames, every duration_ms
\* in 0..MaxDuration; the frame i stands in slot n - 1 - i of the atlas
Animations ==
    UNION {{[i \in 1..n |-> [atlas_index |-> n - i, duration_ms |-> d[i]]] :
               d \in [1..n -> 0..MaxDuration]} : n \in 1..MaxFrames}

\* (mutant) frame_after that does not report the wrap
frame_after_silent(frames, frame) ==
    IF frame < Len(frames) - 1 THEN <<frame + 1, FALSE>> ELSE <<0, FALSE>>

\* Animation::frame_after (frames is never empty here; with no frame at all
\* num_frames - 1 underflows)
frame_after(frames, frame) ==
    IF frame < Len(frames) - 1 THEN <<frame + 1, FALSE>> ELSE <<0, TRUE>>

\* Animation::frame(frame)
frame_of(frames, frame) == frames[frame + 1]

\* GameTime::add_millis
add_millis(t, millis) == t + millis

\* (mutant) a finished animation is never noticed
animation_finished_never(wrapped, looping) == FALSE

\* sprite_animator: `wrapped && !play.looping`
animation_finished(wrapped, looping) == wrapped /\ ~looping

\* the App with one animated entity: GameTimer::default(), a new
\* PlayAnimation whose looping the application chose, a new sprite
AnimInit ==
    /\ LoaderInit
    /\ ase_file = None /\ resource_data = None /\ step = "none"
    /\ optional_stores = OptionalStores
    /\ animation \in {None} \cup {Some(a) : a \in Animations}
    /\ play \in {[PlayAnimationNew EXCEPT !.looping = l] : l \in BOOLEAN}
    /\ sprite_index = 0
    /\ time = 1
    /\ local_frame = 0
    /\ local_init = FALSE
    /\ apc = "timer"
    /\ called = None

\* timer::game_timer: add_dt(time.delta()), followed up to MaxTime
game_timer ==
    /\ apc = "timer"
    /\ \E dt \in 0..(MaxTime - time) : time' = add_millis(time, dt)
    /\ apc' = "start"
    /\ UNCHANGED <<animation, play, sprite_index, local_frame, local_init, called>>
    /\ UNCHANGED <<loader_vars, resources, file_vars>>

\* sprite_animator: `if !play.playing { continue; }`
NotPlaying ==
    /\ apc = "start"
    /\ ~play.playing
    /\ apc' = "timer"
    /\ UNCHANGED <<animation, play, sprite_index, time, local_frame, local_init, called>>
    /\ UNCHANGED <<loader_vars, resources, file_vars>>

\* sprite_animator: `if play.frame_end >= t { continue; }`
NotDue ==
    /\ apc = "start"
    /\ play.playing
    /\ play.frame_end >= time
    /\ apc' = "timer"
    /\ UNCHANGED <<animation, play, sprite_index, time, local_frame, local_init, called>>
    /\ UNCHANGED <<loader_vars, resources, file_vars>>

\* sprite_animator: animations.get(&play.animation) is None, continue
NoAnimation ==
    /\ apc = "start"
    /\ play.playing
    /\ play.frame_end < time
    /\ animation = None
    /\ apc' = "timer"
    /\ UNCHANGED <<animation, play, sprite_index, time, local_frame, local_init, called>>
    /\ UNCHANGED <<loader_vars, resources, file_vars>>

\* sprite_animator: the entity is due; frame and init are set up
Enter ==
    /\ apc = "start"
    /\ play.playing
    /\ play.frame_end < time
    /\ animation # None
    /\ local_frame' = play.current_frame
    /\ local_init' = FALSE
    /\ apc' = "loop"
    /\ UNCHANGED <<animation, play, sprite_index, time, called>>
    /\ UNCHANGED <<loader_vars, resources, file_vars>>

\* the end of the for body: the frame is written when it changed
Written(p, frame, init) ==
    /\ play' = IF init \/ frame # p.current_frame
               THEN [p EXCEPT !.current_frame = frame] ELSE p
    /\ sprite_index' = IF init \/ frame # p.current_frame
                       THEN frame_of(animation[1], frame).atlas_index
                       ELSE sprite_index
    /\ local_frame' = 0
    /\ local_init' = FALSE
    /\ apc' = "timer"

\* while loop, a newly created entity: frame_end == GameTime::ZERO
LoopInit ==
    /\ apc = "loop"
    /\ play.frame_end < time
    /\ play.frame_end = 0
    /\ Written([play EXCEPT !.frame_end =
                   add_millis(time, frame_of(animation[1], local_frame).duration_ms)],
               local_frame, TRUE)
    /\ UNCHANGED <<animation, time, called>>
    /\ UNCHANGED <<loader_vars, resources, file_vars>>

\* while loop: the animation wrapped and does not loop; playing = false, break
LoopStop ==
    /\ apc = "loop"
    /\ play.frame_end < time
    /\ play.frame_end # 0
    /\ \E r \in {frame_after(animation[1], local_frame)} :
          /\ animation_finished(r[2], play.looping)
          /\ called' = Some([frame |-> local_frame, result |-> r,
                              odd |-> called = None \/ ~called[1].odd])
          /\ Written([play EXCEPT !.playing = FALSE], local_frame, local_init)
    /\ UNCHANGED <<animation, time>>
    /\ UNCHANGED <<loader_vars, resources, file_vars>>

\* while loop: on to the next frame, whose duration is added to frame_end
LoopAdvance ==
    /\ apc = "loop"
    /\ play.frame_end < time
    /\ play.frame_end # 0
    /\ \E r \in {frame_after(animation[1], local_frame)} :
          /\ ~animation_finished(r[2], play.looping)
          /\ called' = Some([frame |-> local_frame, result |-> r,
                              odd |-> called = None \/ ~called[1].odd])
          /\ local_frame' = r[1]
          /\ play' = [play EXCEPT !.frame_end =
                         add_millis(@, frame_of(animation[1], r[1]).duration_ms)]
    /\ UNCHANGED <<animation, sprite_index, time, local_init, apc>>
    /\ UNCHANGED <<loader_vars, resources, file_vars>>

\* while loop: play.frame_end < t is false, the loop ends
LoopExit ==
    /\ apc = "loop"
    /\ ~(play.frame_end < time)
    /\ Written(play, local_frame, local_init)
    /\ UNCHANGED <<animation, time, called>>
    /\ UNCHANGED <<loader_vars, resources, file_vars>>

\* one run of sprite_animator, step by step
sprite_animator ==
    \/ NotPlaying
    \/ NotDue
    \/ NoAnimation
    \/ Enter
    \/ LoopInit
    \/ LoopStop
    \/ LoopAdvance
    \/ LoopExit

AnimNext ==
    \/ game_timer
    \/ NotPlaying
    \/ NotDue
    \/ NoAnimation
    \/ Enter
    \/ LoopInit
    \/ LoopStop
    \/ LoopAdvance
    \/ LoopExit

AnimSpec == AnimInit /\ [][AnimNext]_vars

\* Bevy's schedule runs both systems in every frame, and a running system
\* keeps executing its code.
FairAnimSpec ==
    AnimInit /\ [][AnimNext]_vars /\ WF_vars(game_timer) /\ WF_vars(sprite_animator)

\* C35: for an Animation with n >= 1 frames and a frame f < n, frame_after(f)
\* is (f + 1, false) when f < n - 1 and (0, true) when f = n - 1; its second
\* component is true exactly when the next frame is the wrap to frame 0.
C35_FrameAfter ==
    called # None =>
        LET f == called[1].frame
            r == called[1].result
            n == Len(animation[1])
        IN  /\ f \in 0..(n - 1)
            /\ f < n - 1 => r = <<f + 1, FALSE>>
            /\ f = n - 1 => r = <<0, TRUE>>
            /\ r[2] <=> (f = n - 1 /\ r[1] = 0)

\* C35 witness: frame_after was called on the last frame of an Animation of
\* several frames and wrapped
C35_Witness ==
    /\ called # None
    /\ Len(animation[1]) >= 2
    /\ called[1].frame = Len(animation[1]) - 1
    /\ called[1].result = <<0, TRUE>>

\* C36: a run of sprite_animator that entered its while loop leaves it,
\* whatever the durations of the frames; when a run over an existing
\* Animation ends, the entity's frame_end is at or after the game time or the
\* entity has stopped playing; and current_frame always is an index into the
\* Animation's frames.
C36_AnimatorTerminates ==
    /\ (apc = "loop") ~> (apc = "timer")
    /\ [][(apc # "timer" /\ apc' = "timer" /\ animation # None) =>
             (play'.frame_end >= time' \/ ~play'.playing)]_vars
    /\ [](animation # None => play.current_frame \in 0..(Len(animation[1]) - 1))

\* the entity's run of sprite_animator over an existing Animation has ended
RunEnds == apc # "timer" /\ apc' = "timer" /\ animation # None

\* C37: a PlayAnimation that does not loop never wraps: its current_frame
\* never goes back; a run that ends after the time of the last frame has
\* elapsed leaves playing false; playing is false only with current_frame at
\* the last frame; and once playing is false no step changes current_frame,
\* frame_end or the sprite's atlas index.
C37_NonLoopingNeverWraps ==
    /\ [][~play.looping => play'.current_frame >= play.current_frame]_vars
    /\ [][(RunEnds /\ ~play.looping /\ play'.frame_end < time') =>
             (~play'.playing /\ play'.current_frame = Len(animation[1]) - 1)]_vars
    /\ [](~play.playing =>
             (~play.looping /\ play.current_frame = Len(animation[1]) - 1))
    /\ [][~play.playing => (play' = play /\ sprite_index' = sprite_index)]_vars

\* C37 witness: an animation of several frames that does not loop has
\* stopped on its last frame, the game time went on past its frame_end and
\* sprite_animator is about to run again
C37_Witness ==
    /\ apc = "start"
    /\ ~play.playing
    /\ ~play.looping
    /\ animation # None
    /\ Len(animation[1]) >= 2
    /\ play.current_frame = Len(animation[1]) - 1
    /\ sprite_index = frame_of(animation[1], play.current_frame).atlas_index
    /\ play.frame_end < time

====
